---------------------------- MODULE Spec2Model ----------------------------
(***************************************************************************)
(* Model of bot.py (Quizify AI bot): the free-text handler, the batch      *)
(* loop send_quizzes, the Gemini client ask_google_ai with its retries,    *)
(* and the quiz parser and shuffler generate_quiz.                         *)
(*                                                                         *)
(* Text is modelled as a sequence of one-character strings, so that the    *)
(* regular expressions, strip(), lower(), splitlines() and slicing of the  *)
(* code are computed character by character.  "U+274C" and the like stand  *)
(* for one non-ASCII code point.                                           *)
(***************************************************************************)
EXTENDS Integers, Sequences, FiniteSets, TLC

VARIABLES
    pc,               \* position of the handler task
    mode,             \* "none", "quiz" (send_quizzes runs) or "chat"
    user_input,       \* handle_message: update.message.text.strip()
    topic,            \* send_quizzes / generate_quiz argument
    count,            \* send_quizzes argument
    total_sent,       \* send_quizzes local
    prompt,           \* ask_google_ai argument
    attempt,          \* ask_google_ai loop variable
    slept,            \* durations passed to asyncio.sleep in this call
    failures,         \* attempts of this call that raised
    api_text,         \* raw text of the attempt that succeeded (NoneStr if none)
    response,         \* value returned by ask_google_ai
    question,         \* generate_quiz locals ...
    options,
    correct_letter,
    correct_index,
    indexed,
    shuffled_options,
    new_correct,
    poll,             \* arguments of the last send_poll call
    last_reply,       \* text of the last reply_text call
    calls,            \* ask_google_ai invocations so far (saturating)
    polls_ok,         \* send_poll calls that returned
    polls_failed      \* send_poll calls that raised (saturating)

vars == <<pc, mode, user_input, topic, count, total_sent, prompt, attempt, slept,
          failures, api_text, response, question, options, correct_letter,
          correct_index, indexed, shuffled_options, new_correct, poll, last_reply,
          calls, polls_ok, polls_failed>>

-----------------------------------------------------------------------------
(* Bounds of the model *)

\* longest response, in lines, drawn exhaustively from OptionPool
MaxLines == 5
\* longest response, in lines, drawn exhaustively from QuestionPool
MaxQLines == 3
\* value at which the observation counters calls and polls_failed saturate
MaxCounter == 5

(* Program constants *)

\* ask_google_ai(prompt, retries=2, ...)
Retries == 2
\* question[:300]
QuestionLimit == 300
\* opt[:100]
OptionLimit == 100
\* len(options) == 4 / while len(options) < 4
NumOptions == 4

-----------------------------------------------------------------------------
(* Characters and strings *)

UpperCase == <<"A", "B", "C", "D", "E", "F", "G", "H", "I", "J", "K", "L", "M", "N", "O", "P",
       "Q", "R", "S", "T", "U", "V", "W", "X", "Y", "Z">>
LowerCase == <<"a", "b", "c", "d", "e", "f", "g", "h", "i", "j", "k", "l", "m", "n", "o", "p",
       "q", "r", "s", "t", "u", "v", "w", "x", "y", "z">>
Digits == <<"0", "1", "2", "3", "4", "5", "6", "7", "8", "9">>

\* the characters str.isspace() / \s accept, among those of the model
WS == {" ", "\t", "\n"}

\* None as a returned string, and None as a letter
NoneStr == <<"None">>
NoneLetter == "None"

IndexIn(c, seq) == CHOOSE i \in 1..Len(seq) : seq[i] = c
IsIn(c, seq) == \E i \in 1..Len(seq) : seq[i] = c

UpperSet == {UpperCase[i] : i \in 1..26}
LowerSet == {LowerCase[i] : i \in 1..26}
DigitSet == {Digits[i] : i \in 1..10}

LowerOf == [c \in UpperSet |-> LowerCase[IndexIn(c, UpperCase)]]
UpperOf == [c \in LowerSet |-> UpperCase[IndexIn(c, LowerCase)]]
OrdOf == [c \in UpperSet |-> 64 + IndexIn(c, UpperCase)]
DigitOf == [c \in DigitSet |-> IndexIn(c, Digits) - 1]

\* str.lower() and str.upper() on one character
ToLower(c) == IF c \in UpperSet THEN LowerOf[c] ELSE c
ToUpper(c) == IF c \in LowerSet THEN UpperOf[c] ELSE c

Lower(s) == [i \in 1..Len(s) |-> ToLower(s[i])]

\* s[:n]
Take(s, n) == SubSeq(s, 1, IF Len(s) < n THEN Len(s) ELSE n)
\* s[n:] with n counted from 1: the characters from position n on
From(s, n) == SubSeq(s, n, Len(s))

\* first position from i on whose character is not in the set cs (Len(s)+1 if none)
RECURSIVE SkipWhile(_, _, _)
SkipWhile(s, i, cs) == IF i <= Len(s) /\ s[i] \in cs THEN SkipWhile(s, i + 1, cs) ELSE i

\* last position up to i whose character is not in the set cs (0 if none)
RECURSIVE SkipBack(_, _, _)
SkipBack(s, i, cs) == IF i >= 1 /\ s[i] \in cs THEN SkipBack(s, i - 1, cs) ELSE i

\* str.strip()
Strip(s) == SubSeq(s, SkipWhile(s, 1, WS), SkipBack(s, Len(s), WS))

\* whether w occurs in s at position i
MatchesAt(s, i, w) ==
    /\ i >= 1 /\ i + Len(w) - 1 <= Len(s)
    /\ \A k \in 1..Len(w) : s[i + k - 1] = w[k]

\* whether w (lower case) occurs in s at position i, ignoring the case of s
MatchesAtNoCase(s, i, w) ==
    /\ i >= 1 /\ i + Len(w) - 1 <= Len(s)
    /\ \A k \in 1..Len(w) : ToLower(s[i + k - 1]) = w[k]

\* w in s
Contains(s, w) == \E i \in 1..Len(s) : MatchesAt(s, i, w)

\* int(digits)
RECURSIVE ToInt(_)
ToInt(ds) == IF ds = <<>> THEN 0
             ELSE 10 * ToInt(SubSeq(ds, 1, Len(ds) - 1)) + DigitOf[ds[Len(ds)]]

\* str(n) for n >= 0
RECURSIVE ToStr(_)
ToStr(n) == IF n < 10 THEN <<Digits[n + 1]>> ELSE ToStr(n \div 10) \o <<Digits[(n % 10) + 1]>>

\* first position from i on holding character c (Len(s)+1 if none)
RECURSIVE FindChar(_, _, _)
FindChar(s, i, c) == IF i <= Len(s) /\ s[i] # c THEN FindChar(s, i + 1, c) ELSE i

\* the positions at which a line of s starts (none after a final line break)
LineStarts(s) == {i \in 1..Len(s) : i = 1 \/ s[i - 1] = "\n"}

\* the n-th smallest element of a set of numbers
Nth(S, n) == CHOOSE a \in S : Cardinality({b \in S : b <= a}) = n

\* the piece of s that starts at position a and ends before the next line break
PieceAt(s, a) == SubSeq(s, a, FindChar(s, a, "\n") - 1)

\* str.splitlines() on "\n": the pieces between line breaks, no empty piece after
\* a final break
SplitLines(s) ==
    [n \in 1..Cardinality(LineStarts(s)) |->
        CHOOSE piece \in {PieceAt(s, a) : a \in {Nth(LineStarts(s), n)}} : TRUE]

NonBlank(line) == line # <<>>

\* [ln.strip() for ln in pieces if ln.strip()]
StripNonBlank(pieces) == SelectSeq([n \in 1..Len(pieces) |-> Strip(pieces[n])], NonBlank)

\* [ln.strip() for ln in response.splitlines() if ln.strip()]
ResponseLines(resp) == StripNonBlank(SplitLines(resp))

\* "\n".join(ls)
RECURSIVE JoinLines(_)
JoinLines(ls) == IF ls = <<>> THEN <<>>
                 ELSE IF Len(ls) = 1 THEN ls[1]
                 ELSE ls[1] \o <<"\n">> \o JoinLines(Tail(ls))

-----------------------------------------------------------------------------
(* generate_quiz: question *)

\* [:\-\s]
QuestionSeps == {":", "-"} \cup WS

\* re.match(r"(?i)^question[:\-\s]", line)
IsQuestionPrefix(line) ==
    /\ Len(line) >= 9
    /\ MatchesAtNoCase(line, 1, <<"q", "u", "e", "s", "t", "i", "o", "n">>)
    /\ line[9] \in QuestionSeps

\* re.sub(r'(?i)^question[:\-\s]*', '', line).strip()
StripQuestionPrefix(line) == Strip(From(line, SkipWhile(line, 9, QuestionSeps)))

\* "?" in line
HasQuestionMark(line) == IsIn("?", line)

\* f"What is the correct answer about {topic}?"
DefaultQuestion(t) == <<"W", "h", "a", "t", " ", "i", "s", " ", "t", "h", "e", " ", "c", "o", "r", "r",
       "e", "c", "t", " ", "a", "n", "s", "w", "e", "r", " ", "a", "b", "o", "u", "t",
       " ">> \o t \o <<"?">>

\* variant: the "?" test made before the prefix test
RECURSIVE ScanQuestionMarkFirst(_, _)
ScanQuestionMarkFirst(lines, i) ==
    IF i > Len(lines) THEN <<>>
    ELSE IF HasQuestionMark(lines[i]) THEN Strip(lines[i])
    ELSE IF IsQuestionPrefix(lines[i]) THEN StripQuestionPrefix(lines[i])
    ELSE ScanQuestionMarkFirst(lines, i + 1)

\* the for loop over lines: the first line that has the prefix or a "?" ends the
\* scan; <<>> stands for a question left None or empty
RECURSIVE ScanQuestion(_, _)
ScanQuestion(lines, i) ==
    IF i > Len(lines) THEN <<>>
    ELSE IF IsQuestionPrefix(lines[i]) THEN StripQuestionPrefix(lines[i])
    ELSE IF HasQuestionMark(lines[i]) THEN Strip(lines[i])
    ELSE ScanQuestion(lines, i + 1)

\* question, with "if not question" applied
ExtractQuestion(lines, t) ==
    LET q == ScanQuestion(lines, 1)
    IN  IF q = <<>> THEN DefaultQuestion(t) ELSE q

-----------------------------------------------------------------------------
(* generate_quiz: options *)

OptionLetters == {"A", "B", "C", "D"}

\* [A-D] under re.IGNORECASE
IsOptionLetter(c) == ToUpper(c) \in OptionLetters

\* [\).:\-]
StrictSeps == {")", ".", ":", "-"}

\* opt_pattern.match(line): ^[A-D][\).:\-]\s*(.+)$
StrictMatch(line) ==
    /\ Len(line) >= 3
    /\ IsOptionLetter(line[1])
    /\ line[2] \in StrictSeps

\* m.group(1).strip()
StrictBody(line) == Strip(From(line, 3))

\* variant: the strict loop without its break
RECURSIVE StrictPassNoBreak(_, _, _)
StrictPassNoBreak(lines, i, opts) ==
    IF i > Len(lines) THEN opts
    ELSE StrictPassNoBreak(lines, i + 1,
             IF StrictMatch(lines[i]) THEN Append(opts, StrictBody(lines[i])) ELSE opts)

\* the strict for loop: append on a match, break once 4 are collected
RECURSIVE StrictPass(_, _, _)
StrictPass(lines, i, opts) ==
    IF i > Len(lines) THEN opts
    ELSE LET got == IF StrictMatch(lines[i]) THEN Append(opts, StrictBody(lines[i]))
                    ELSE opts
         IN  IF Len(got) = NumOptions THEN got ELSE StrictPass(lines, i + 1, got)

\* re.match(r"^([A-D])\s+(.+)$", line, re.IGNORECASE)
LooseMatch(line) ==
    /\ Len(line) >= 3
    /\ IsOptionLetter(line[1])
    /\ line[2] \in WS

\* m.group(2).strip()
LooseBody(line) == Strip(From(line, 2))

\* the loose for loop: append a matched text not yet in options, break at 4
RECURSIVE LoosePass(_, _, _)
LoosePass(lines, i, opts) ==
    IF i > Len(lines) THEN opts
    ELSE LET got == IF LooseMatch(lines[i]) /\ ~IsIn(LooseBody(lines[i]), opts)
                    THEN Append(opts, LooseBody(lines[i]))
                    ELSE opts
         IN  IF Len(got) = NumOptions THEN got ELSE LoosePass(lines, i + 1, got)

\* f"{topic} Option {chr(65 + len(options))}"
Placeholder(t, n) == t \o <<" ", "O", "p", "t", "i", "o", "n", " ">> \o <<UpperCase[n + 1]>>

\* while len(options) < 4: options.append(placeholder)
RECURSIVE PadOptions(_, _)
PadOptions(opts, t) ==
    IF Len(opts) < NumOptions THEN PadOptions(Append(opts, Placeholder(t, Len(opts))), t)
    ELSE opts

-----------------------------------------------------------------------------
(* generate_quiz: correct letter and index *)

\* [:\s\-]
MarkerSeps == {":", "-"} \cup WS

\* whether  word[:\s\-]*([A-D])  matches at position i of line, ignoring case
MarkerAt(line, i, word) ==
    /\ MatchesAtNoCase(line, i, word)
    /\ LET k == SkipWhile(line, i + Len(word), MarkerSeps)
       IN  k <= Len(line) /\ IsOptionLetter(line[k])

\* re.search(word + r"[:\s\-]*([A-D])", line, re.IGNORECASE) is not None
HasMarker(line, word) == \E i \in 1..Len(line) : MarkerAt(line, i, word)

\* m.group(1).upper() of the leftmost match
MarkerLetter(line, word) ==
    LET i == CHOOSE p \in 1..Len(line) :
                 MarkerAt(line, p, word) /\ \A r \in 1..(p - 1) : ~MarkerAt(line, r, word)
    IN  ToUpper(line[SkipWhile(line, i + Len(word), MarkerSeps)])

\* for line in lines: ... break  (NoneLetter when no line matches)
RECURSIVE ScanMarker(_, _, _)
ScanMarker(lines, i, word) ==
    IF i > Len(lines) THEN NoneLetter
    ELSE IF HasMarker(lines[i], word) THEN MarkerLetter(lines[i], word)
    ELSE ScanMarker(lines, i + 1, word)

\* correct_letter: "correct" first, then "answer"
ExtractCorrectLetter(lines) ==
    LET c == ScanMarker(lines, 1, <<"c", "o", "r", "r", "e", "c", "t">>)
    IN  IF c # NoneLetter THEN c ELSE ScanMarker(lines, 1, <<"a", "n", "s", "w", "e", "r">>)

\* ord(correct_letter) - 65
LetterIndex(letter) == OrdOf[letter] - 65

\* correct_index, lines 156-161
ResolveIndex(letter) ==
    IF letter = NoneLetter THEN 0
    ELSE IF 0 <= LetterIndex(letter) /\ LetterIndex(letter) < NumOptions
         THEN LetterIndex(letter)
         ELSE 0

-----------------------------------------------------------------------------
(* generate_quiz: shuffle *)

\* the orders random.shuffle can leave a list of n elements in
Shuffles(n) == Permutations(1..n)

\* indexed after random.shuffle: pairs (original_index, text), 0-based index
ShuffleIndexed(opts, perm) == [i \in 1..Len(opts) |-> <<perm[i] - 1, opts[perm[i]]>>]

\* [text for (orig_idx, text) in indexed]
TextsOf(ix) == [i \in 1..Len(ix) |-> ix[i][2]]

\* next((i for i, (o, _) in enumerate(indexed) if o == orig), 0)
FirstWithOrigin(ix, orig) ==
    IF \E i \in 1..Len(ix) : ix[i][1] = orig
    THEN (CHOOSE i \in 1..Len(ix) :
              ix[i][1] = orig /\ \A j \in 1..(i - 1) : ix[j][1] # orig) - 1
    ELSE 0

\* variant: the correct option looked up by its text after the shuffle
NewCorrectByText(ix, letter) ==
    IF letter = NoneLetter THEN 0
    ELSE LET text == ix[FirstWithOrigin(ix, LetterIndex(letter)) + 1][2]
         IN  (CHOOSE i \in 1..Len(ix) :
                  ix[i][2] = text /\ \A j \in 1..(i - 1) : ix[j][2] # text) - 1

\* new_correct, lines 168-172
NewCorrect(ix, letter) ==
    IF letter = NoneLetter THEN 0
    ELSE FirstWithOrigin(ix, LetterIndex(letter))

-----------------------------------------------------------------------------
(* handle_message: intent *)

\* whether  (\d+)\s+quiz  matches at position i
CountMatchAt(s, i) ==
    /\ i <= Len(s) /\ s[i] \in DigitSet
    /\ LET j == SkipWhile(s, i, DigitSet)
           k == SkipWhile(s, j, WS)
       IN  k > j /\ MatchesAt(s, k, <<"q", "u", "i", "z">>)

\* m = re.search(r"(\d+)\s+quiz", lower); count = int(m.group(1)) if m else 1
CountOf(low) ==
    IF \E i \in 1..Len(low) : CountMatchAt(low, i)
    THEN LET i == CHOOSE p \in 1..Len(low) :
                      CountMatchAt(low, p) /\ \A r \in 1..(p - 1) : ~CountMatchAt(low, r)
         IN  ToInt(SubSeq(low, i, SkipWhile(low, i, DigitSet) - 1))
    ELSE 1

\* the word alternatives of the topic pattern, in the order the pattern lists them
TriggerWords == <<<<"c", "r", "e", "a", "t", "e">>, <<"m", "a", "k", "e">>, <<"q", "u", "i", "z">>, <<"q", "u", "i", "z", "z", "e", "s">>, <<"q", "u", "e", "s", "t", "i", "o", "n">>, <<"q", "u", "e", "s", "t", "i", "o", "n", "s">>>>

\* length of the match of (alts[1]|alts[2]|...|\d+) at position i, 0 if none: the
\* first alternative that matches is taken
MatchLength(s, i, alts) ==
    IF \E k \in 1..Len(alts) : MatchesAt(s, i, alts[k])
    THEN Len(alts[CHOOSE k \in 1..Len(alts) :
                      MatchesAt(s, i, alts[k]) /\ \A m \in 1..(k - 1) : ~MatchesAt(s, i, alts[m])])
    ELSE IF s[i] \in DigitSet THEN SkipWhile(s, i, DigitSet) - i
    ELSE 0

\* re.sub(pattern, "", s): the matches removed, scanning left to right
RECURSIVE RemoveMatches(_, _, _)
RemoveMatches(s, i, alts) ==
    IF i > Len(s) THEN <<>>
    ELSE LET n == MatchLength(s, i, alts)
         IN  IF n > 0 THEN RemoveMatches(s, i + n, alts)
             ELSE <<s[i]>> \o RemoveMatches(s, i + 1, alts)

\* the topic used when none is left
GeneralKnowledge == <<"G", "e", "n", "e", "r", "a", "l", " ", "K", "n", "o", "w", "l", "e", "d", "g", "e">>

\* topic = re.sub(...).strip(); "General Knowledge" if empty
TopicOf(low) ==
    LET t == Strip(RemoveMatches(low, 1, TriggerWords))
    IN  IF t = <<>> THEN GeneralKnowledge ELSE t

\* "quiz" in lower or "question" in lower
WantsQuiz(low) == Contains(low, <<"q", "u", "i", "z">>) \/ Contains(low, <<"q", "u", "e", "s", "t", "i", "o", "n">>)

-----------------------------------------------------------------------------
(* Texts the program builds *)

\* the prompt of generate_quiz
QuizPrompt(t) ==
    <<"C", "r", "e", "a", "t", "e", " ", "o", "n", "e", " ", "m", "u", "l", "t", "i",
       "p", "l", "e", "-", "c", "h", "o", "i", "c", "e", " ", "q", "u", "i", "z", " ",
       "q", "u", "e", "s", "t", "i", "o", "n", " ", "a", "b", "o", "u", "t", " ">> \o t \o <<".", " ">>
    \o <<"R", "e", "t", "u", "r", "n", " ", "t", "h", "e", " ", "q", "u", "e", "s", "t",
       "i", "o", "n", ",", " ", "f", "o", "u", "r", " ", "d", "i", "s", "t", "i", "n",
       "c", "t", " ", "o", "p", "t", "i", "o", "n", "s", " ", "l", "a", "b", "e", "l",
       "e", "d", " ", "A", "U+2013", "D", ",", " ", "a", "n", "d", " ", "i", "n", "d", "i",
       "c", "a", "t", "e", " ", "t", "h", "e", " ", "c", "o", "r", "r", "e", "c", "t",
       " ", "o", "n", "e", ".", "\n">>
    \o <<"P", "r", "e", "f", "e", "r", "r", "e", "d", " ", "f", "o", "r", "m", "a", "t",
       " ", "e", "x", "a", "m", "p", "l", "e", "s", ":", "\n">>
    \o <<"Q", "u", "e", "s", "t", "i", "o", "n", ":", " ", "<", "t", "e", "x", "t", ">",
       "\n", "A", ":", " ", "o", "p", "t", "i", "o", "n", " ", "A", "\n", "B", ":", " ",
       "o", "p", "t", "i", "o", "n", " ", "B", "\n", "C", ":", " ", "o", "p", "t", "i",
       "o", "n", " ", "C", "\n", "D", ":", " ", "o", "p", "t", "i", "o", "n", " ", "D",
       "\n", "C", "o", "r", "r", "e", "c", "t", ":", " ", "B", "\n", "\n">>
    \o <<"I", "f", " ", "y", "o", "u", " ", "d", "e", "v", "i", "a", "t", "e", ",", " ",
       "s", "t", "i", "l", "l", " ", "i", "n", "c", "l", "u", "d", "e", " ", "a", " ",
       "c", "l", "e", "a", "r", " ", "q", "u", "e", "s", "t", "i", "o", "n", " ", "a",
       "n", "d", " ", "f", "o", "u", "r", " ", "l", "a", "b", "e", "l", "e", "d", " ",
       "o", "p", "t", "i", "o", "n", "s", ".">>

\* what ask_google_ai returns once every attempt has failed
Sentinel == <<"U+274C", " ", "A", "I", " ", "s", "e", "r", "v", "i", "c", "e", " ", "i", "s", " ",
       "u", "n", "a", "v", "a", "i", "l", "a", "b", "l", "e", " ", "r", "i", "g", "h",
       "t", " ", "n", "o", "w", ".", " ", "P", "l", "e", "a", "s", "e", " ", "t", "r",
       "y", " ", "a", "g", "a", "i", "n", " ", "l", "a", "t", "e", "r", ".">>

\* the reply after a failed send_poll
WarningText == <<"U+26A0", "U+FE0F", " ", "Q", "u", "i", "z", " ", "c", "r", "e", "a", "t", "i", "o", "n",
       " ", "f", "a", "i", "l", "e", "d", ".", " ", "P", "l", "e", "a", "s", "e", " ",
       "t", "r", "y", " ", "a", "g", "a", "i", "n", ".">>

\* f"... All {total_sent} quiz{'es' if total_sent > 1 else ''} sent successfully!"
FinalText(n) ==
    <<"U+1F389", " ", "A", "l", "l", " ">> \o ToStr(n) \o <<" ", "q", "u", "i", "z">>
    \o (IF n > 1 THEN <<"e", "s">> ELSE <<>>) \o <<" ", "s", "e", "n", "t", " ", "s", "u", "c", "c", "e", "s", "s", "f", "u", "l", "l", "y", "!">>

-----------------------------------------------------------------------------
(* Inputs *)

\* the message of the start and help texts
ExampleMessage == <<"c", "r", "e", "a", "t", "e", " ", "3", " ", "q", "u", "i", "z", "z", "e", "s",
       " ", "a", "b", "o", "u", "t", " ", "H", "T", "M", "L">>

\* texts of incoming messages
Messages == {
    ExampleMessage,
    <<"h", "e", "l", "l", "o", " ", "t", "h", "e", "r", "e">>,
    <<" ", "Q", "u", "i", "z", " ">>,
    <<"m", "a", "k", "e", " ", "2", " ", "q", "u", "i", "z", " ", "c", "s", "s">>,
    <<"0", " ", "q", "u", "i", "z", " ", "x">>,
    <<"2", " ", "q", "u", "e", "s", "t", "i", "o", "n", "s", " ", "o", "n", " ", "c", "s", "s">> }

\* texts the Gemini API answers with, in a batch or a chat
ApiTexts == {
    <<"Q", "u", "e", "s", "t", "i", "o", "n", ":", " ", "W", "h", "a", "t", " ", "i",
       "s", " ", "2", "+", "2", "?", "\n", "A", ":", " ", "3", "\n", "B", ":", " ", "4",
       "\n", "C", ":", " ", "5", "\n", "D", ":", " ", "6", "\n", "C", "o", "r", "r", "e",
       "c", "t", ":", " ", "B">>,
    <<" ", " ", "B", ":", " ", "y", "\n", "T", "h", "e", " ", "a", "n", "s", "w", "e", "r", " ", "-", " ", "b", " ", "\n">>,
    <<"A", " ", "x", "\n", "A", ":", " ", "x", "\n", "b", " ", "y", "\n", "w", "h", "i", "c", "h", "?">>,
    <<>> }

\* lines about options and the correct answer
OptionPool == {
    <<"A", ":", " ", "x">>,
    <<"b", ")", " ", "y">>,
    <<" ", "D", " ", " ", "z", " ">>,
    <<"C", "o", "r", "r", "e", "c", "t", ":", " ", "B">>,
    <<"A", "n", "s", "w", "e", "r", " ", "-", " ", "d">> }

\* lines about the question
QuestionPool == {
    <<"Q", "u", "e", "s", "t", "i", "o", "n", ":", " ", "Q", "1">>,
    <<"q", "u", "e", "s", "t", "i", "o", "n", "-", " ", "Q", "2", "?">>,
    <<"I", "s", " ", "i", "t", "?">>,
    <<"Q", "u", "e", "s", "t", "i", "o", "n", ":">>,
    <<"q", "u", "e", "s", "t", "i", "o", "n", "s">>,
    <<"A", ":", " ", "x">>,
    <<" ", " ">> }

\* longer responses: five and more option lines, repeated texts, the sentinel
LongResponses == {
    <<"Q", "u", "e", "s", "t", "i", "o", "n", ":", " ", "W", "h", "a", "t", " ", "i",
       "s", " ", "2", "+", "2", "?", "\n", "A", ":", " ", "3", "\n", "B", ":", " ", "4",
       "\n", "C", ":", " ", "5", "\n", "D", ":", " ", "6", "\n", "C", "o", "r", "r", "e",
       "c", "t", ":", " ", "B">>,
    <<"A", ":", " ", "x", "\n", "b", ")", " ", "y", "\n", "C", "-", " ", "z", "\n", "D",
       ".", " ", "w", "\n", "A", ":", " ", "v", "\n", "C", "o", "r", "r", "e", "c", "t",
       ":", " ", "D">>,
    <<"A", " ", "x", "\n", "b", " ", "x", "\n", "c", " ", "y", "\n", "d", " ", "z", "\n",
       "a", " ", "w", "\n", "b", " ", "v", "\n", "T", "h", "e", " ", "c", "o", "r", "r",
       "e", "c", "t", " ", "a", "n", "s", "w", "e", "r", " ", "i", "s", ":", " ", "C">>,
    <<"A", ":", " ", "x", "\n", "B", ":", " ", "y", "\n", "b", " ", "x", "\n", "c", " ",
       "w", "\n", "d", " ", "v", "\n", "A", "n", "s", "w", "e", "r", ":", " ", "A">>,
    <<"A", ":", " ", "x", "\n", "B", ":", " ", "x", "\n", "C", ":", " ", "y", "\n", "D",
       ":", " ", "y", "\n", "C", "o", "r", "r", "e", "c", "t", ":", " ", "C">>,
    Sentinel }

\* the sequences over S of length 0..n
SeqsUpTo(S, n) == UNION {[1..k -> S] : k \in 0..n}

\* the responses generate_quiz is applied to in SpecQuiz
QuizResponses ==
    {JoinLines(ls) : ls \in SeqsUpTo(OptionPool, MaxLines)}
    \cup {JoinLines(ls) : ls \in SeqsUpTo(QuestionPool, MaxQLines)}
    \cup LongResponses

QuizTopics == {<<"c", "s", "s">>}

-----------------------------------------------------------------------------
(* State *)

Bump(n) == IF n < MaxCounter THEN n + 1 ELSE n

\* the locals of ask_google_ai, outside a call
AskIdle ==
    /\ prompt = <<>> /\ attempt = 0 /\ slept = <<>> /\ failures = 0 /\ api_text = NoneStr

\* the locals of generate_quiz and the send_poll arguments, outside an iteration
QuizIdle ==
    /\ response = NoneStr /\ question = <<>> /\ options = <<>>
    /\ correct_letter = NoneLetter /\ correct_index = 0 /\ indexed = <<>>
    /\ shuffled_options = <<>> /\ new_correct = 0 /\ poll = <<>>

Init ==
    /\ pc = "idle" /\ mode = "none" /\ user_input = <<>>
    /\ topic = <<>> /\ count = 0 /\ total_sent = 0
    /\ AskIdle /\ QuizIdle
    /\ last_reply = <<>> /\ calls = 0 /\ polls_ok = 0 /\ polls_failed = 0

\* the state in which ask_google_ai has returned resp to generate_quiz(t), first
\* iteration of a batch of one
InitQuiz ==
    /\ pc = "returned" /\ mode = "quiz" /\ user_input = <<>>
    /\ topic \in QuizTopics /\ count = 1 /\ total_sent = 0
    /\ AskIdle
    /\ response \in QuizResponses
    /\ question = <<>> /\ options = <<>> /\ correct_letter = NoneLetter
    /\ correct_index = 0 /\ indexed = <<>> /\ shuffled_options = <<>>
    /\ new_correct = 0 /\ poll = <<>>
    /\ last_reply = <<>> /\ calls = 1 /\ polls_ok = 0 /\ polls_failed = 0

askVars == <<prompt, attempt, slept, failures, api_text>>
quizVars == <<question, options, correct_letter, correct_index, indexed,
              shuffled_options, new_correct, poll>>
batchVars == <<topic, count, total_sent>>
sinkVars == <<last_reply, polls_ok, polls_failed>>

-----------------------------------------------------------------------------
(* handle_message *)

\* ask_google_ai(p) is entered: first attempt under way
EnterAsk(p) ==
    /\ prompt' = p /\ attempt' = 1 /\ slept' = <<>> /\ failures' = 0
    /\ api_text' = NoneStr /\ response' = NoneStr
    /\ calls' = Bump(calls)

HandleMessage(text) ==
    /\ pc = "idle"
    /\ user_input' = Strip(text)
    /\ \E low \in {Lower(Strip(text))} :
           \/ /\ WantsQuiz(low)
              /\ mode' = "quiz" /\ topic' = TopicOf(low) /\ count' = CountOf(low)
              /\ total_sent' = 0
              /\ pc' = "loop"
              /\ UNCHANGED <<askVars, response, calls>>
           \/ /\ ~WantsQuiz(low)
              /\ mode' = "chat"
              /\ EnterAsk(Strip(text))
              /\ pc' = "ask"
              /\ UNCHANGED batchVars
    /\ UNCHANGED <<quizVars, sinkVars>>

-----------------------------------------------------------------------------
(* send_quizzes *)

\* while total_sent < count: generate_quiz(topic) calls ask_google_ai(prompt)
StartGenerate ==
    /\ pc = "loop" /\ total_sent < count
    /\ EnterAsk(QuizPrompt(topic))
    /\ pc' = "ask"
    /\ UNCHANGED <<mode, user_input, batchVars, quizVars, sinkVars>>

\* the loop is left: the closing reply_text
SendFinal ==
    /\ pc = "loop" /\ ~(total_sent < count)
    /\ last_reply' = FinalText(total_sent)
    /\ pc' = "done"
    /\ UNCHANGED <<mode, user_input, batchVars, askVars, response, quizVars,
                   calls, polls_ok, polls_failed>>

-----------------------------------------------------------------------------
(* ask_google_ai *)

\* an attempt gets a response with text: return text.strip(), or "" if empty
AskSucceed(text) ==
    /\ pc = "ask"
    /\ api_text' = text
    /\ response' = IF text # <<>> THEN Strip(text) ELSE <<>>
    /\ pc' = "returned"
    /\ UNCHANGED <<mode, user_input, batchVars, prompt, attempt, slept, failures,
                   quizVars, sinkVars, calls>>

\* variant: the retry test off by one (attempt < retries)
AskFailOffByOne ==
    /\ pc = "ask"
    /\ failures' = failures + 1
    /\ IF attempt < Retries
       THEN /\ slept' = Append(slept, 1 + attempt)
            /\ attempt' = attempt + 1 /\ pc' = "ask" /\ UNCHANGED response
       ELSE /\ response' = Sentinel
            /\ pc' = "returned"
            /\ UNCHANGED <<attempt, slept>>
    /\ UNCHANGED <<mode, user_input, batchVars, prompt, api_text, quizVars, sinkVars, calls>>

\* an attempt raises (timeout, transport error, bad status, malformed body)
AskFail ==
    /\ pc = "ask"
    /\ failures' = failures + 1
    /\ IF attempt <= Retries
       THEN /\ slept' = Append(slept, 1 + attempt)
            /\ IF attempt + 1 < Retries + 2
               THEN attempt' = attempt + 1 /\ pc' = "ask" /\ UNCHANGED response
               ELSE \* range(1, retries + 2) is exhausted: the function ends, None
                    UNCHANGED attempt /\ pc' = "returned" /\ UNCHANGED response
       ELSE /\ response' = Sentinel
            /\ pc' = "returned"
            /\ UNCHANGED <<attempt, slept>>
    /\ UNCHANGED <<mode, user_input, batchVars, prompt, api_text, quizVars, sinkVars, calls>>

\* the chat branch: reply_text(reply)
ChatReply ==
    /\ pc = "returned" /\ mode = "chat"
    /\ last_reply' = response
    /\ pc' = "done"
    /\ prompt' = <<>> /\ attempt' = 0 /\ slept' = <<>> /\ failures' = 0
    /\ api_text' = NoneStr
    /\ UNCHANGED <<mode, user_input, batchVars, response, quizVars, calls,
                   polls_ok, polls_failed>>

-----------------------------------------------------------------------------
(* generate_quiz after ask_google_ai has returned, up to the send_poll call *)

GenerateQuiz ==
    /\ pc = "returned" /\ mode = "quiz"
    /\ response # NoneStr          \* None has no splitlines(): the call would raise
    /\ \E pieces \in {SplitLines(response)} :
       \E lines \in {StripNonBlank(pieces)} :
       \E strict \in {StrictPass(lines, 1, <<>>)} :
       \E loose \in {IF Len(strict) < NumOptions THEN LoosePass(lines, 1, strict)
                     ELSE strict} :
           /\ question' = ExtractQuestion(lines, topic)
           /\ options' = PadOptions(loose, topic)
           /\ correct_letter' = ExtractCorrectLetter(lines)
    /\ correct_index' = ResolveIndex(correct_letter')
    /\ \E perm \in Shuffles(Len(options')) : indexed' = ShuffleIndexed(options', perm)
    /\ shuffled_options' = TextsOf(indexed')
    /\ new_correct' = NewCorrect(indexed', correct_letter')
    /\ poll' = [question |-> Take(question', QuestionLimit),
                options |-> [i \in 1..Len(shuffled_options') |->
                                Take(shuffled_options'[i], OptionLimit)],
                correct_option_id |-> new_correct']
    /\ prompt' = <<>> /\ attempt' = 0 /\ slept' = <<>> /\ failures' = 0
    /\ api_text' = NoneStr
    /\ pc' = "polling"
    /\ UNCHANGED <<mode, user_input, batchVars, response, sinkVars, calls>>

\* what the iteration's locals become once the iteration is over
ClearQuiz ==
    /\ response' = NoneStr /\ question' = <<>> /\ options' = <<>>
    /\ correct_letter' = NoneLetter /\ correct_index' = 0 /\ indexed' = <<>>
    /\ shuffled_options' = <<>> /\ new_correct' = 0 /\ poll' = <<>>

\* send_poll returns: total_sent += 1
DeliverOk ==
    /\ pc = "polling"
    /\ total_sent' = total_sent + 1
    /\ polls_ok' = polls_ok + 1
    /\ ClearQuiz
    /\ pc' = "loop"
    /\ UNCHANGED <<mode, user_input, topic, count, askVars, last_reply, polls_failed, calls>>

\* variant: total_sent incremented whether or not send_poll raised
DeliverFailCounted ==
    /\ pc = "polling"
    /\ polls_failed' = Bump(polls_failed)
    /\ total_sent' = total_sent + 1
    /\ ClearQuiz
    /\ pc' = "warn"
    /\ UNCHANGED <<mode, user_input, topic, count, askVars, last_reply, polls_ok, calls>>

\* variant: no except branch, the exception of send_poll ends the handler
DeliverFailAborts ==
    /\ pc = "polling"
    /\ polls_failed' = Bump(polls_failed)
    /\ ClearQuiz
    /\ pc' = "done"
    /\ UNCHANGED <<mode, user_input, batchVars, askVars, last_reply, polls_ok, calls>>

\* send_poll raises: the except branch is entered
DeliverFail ==
    /\ pc = "polling"
    /\ polls_failed' = Bump(polls_failed)
    /\ ClearQuiz
    /\ pc' = "warn"
    /\ UNCHANGED <<mode, user_input, batchVars, askVars, last_reply, polls_ok, calls>>

\* variant: after the warning the same poll is sent again, no new quiz generated
WarnThenResend ==
    /\ pc = "warn"
    /\ last_reply' = WarningText
    /\ pc' = "polling"
    /\ UNCHANGED <<mode, user_input, batchVars, askVars, response, quizVars,
                   polls_ok, polls_failed, calls>>

\* the except branch: reply_text(warning), then the loop goes on
Warn ==
    /\ pc = "warn"
    /\ last_reply' = WarningText
    /\ pc' = "loop"
    /\ UNCHANGED <<mode, user_input, batchVars, askVars, response, quizVars,
                   polls_ok, polls_failed, calls>>

-----------------------------------------------------------------------------
(* Specifications *)

Next ==
    \/ \E text \in Messages : HandleMessage(text)
    \/ StartGenerate
    \/ SendFinal
    \/ \E text \in ApiTexts : AskSucceed(text)
    \/ AskFail
    \/ ChatReply
    \/ GenerateQuiz
    \/ DeliverOk
    \/ DeliverFail
    \/ Warn

\* the bot handling one message
Spec == Init /\ [][Next]_vars

\* the same, every enabled step eventually taken (the event loop runs the task on)
SpecLive == Init /\ [][Next]_vars /\ WF_vars(Next)

\* generate_quiz applied to every response of QuizResponses
NextQuiz == GenerateQuiz

SpecQuiz == InitQuiz /\ [][NextQuiz]_vars

-----------------------------------------------------------------------------
(* Properties *)

\* generate_quiz has returned and its result is handed to send_poll
Generated == pc = "polling"

Lines == ResponseLines(response)

Least(S) == CHOOSE i \in S : \A j \in S : i <= j

\* C1: for every response (the empty string and the failure sentinel included),
\* generate_quiz is handed a string, never None, and returns exactly 4 options and a
\* correct index in 0..3 (the strict pass, the loose pass and the padding together
\* leave neither fewer nor more than 4 options), and send_poll is called with them.
C1_FourOptions ==
    /\ (pc = "returned" /\ mode = "quiz") => response # NoneStr
    /\ Generated =>
        /\ Len(options) = 4
        /\ Len(shuffled_options) = 4
        /\ new_correct \in 0..3
        /\ Len(poll.options) = 4
        /\ poll.correct_option_id = new_correct

\* C1 witness: one option from the strict pass, one more from the loose pass, two
\* from the padding
C1_Witness ==
    /\ Generated
    /\ LET ls == Lines
           strict == StrictPass(ls, 1, <<>>)
       IN  Len(strict) = 1 /\ Len(LoosePass(ls, 1, strict)) = 2
    /\ options[3] = Placeholder(topic, 2) /\ options[4] = Placeholder(topic, 3)

\* C2: when a correct letter was determined, whatever order the shuffle leaves, the
\* returned option at the returned index is the string that stood at the pre-shuffle
\* correct index, and it is the entry that came from that position (also when texts
\* are duplicated).
C2_ShuffleKeepsCorrect ==
    (Generated /\ correct_letter # NoneLetter) =>
        /\ shuffled_options[new_correct + 1] = options[correct_index + 1]
        /\ indexed[new_correct + 1][1] = correct_index

\* C2 witness: letter B determined, the first two options have the same text, and
\* the shuffle has moved the correct option to the last place
C2_Witness ==
    /\ Generated
    /\ correct_letter = "B"
    /\ options[1] = options[2]
    /\ new_correct = 3
    /\ indexed[1][1] = 0

\* C3: when no correct letter can be determined, the correct index defaults to 0 of
\* the pre-shuffle list and is remapped through the shuffle: the returned option at
\* the returned index is the option that was first before the shuffle.
C3_DefaultRemapped ==
    (Generated /\ correct_letter = NoneLetter) =>
        /\ correct_index = 0
        /\ shuffled_options[new_correct + 1] = options[1]
        /\ indexed[new_correct + 1][1] = 0

InFlight == IF pc \in {"ask", "returned", "polling"} THEN 1 ELSE 0

\* C5: in a batch, ask_google_ai is invoked once per delivery attempt, one
\* generation then one delivery at a time: the invocations equal the successful plus
\* the failed deliveries (plus the one under way), and a batch of count n with no
\* failed delivery ends after exactly n invocations and n deliveries.
C5_OneCallPerAttempt ==
    mode = "quiz" =>
        /\ calls < MaxCounter => calls = polls_ok + polls_failed + InFlight
        /\ (pc = "done" /\ polls_failed = 0 /\ count < MaxCounter) =>
               (calls = count /\ polls_ok = count)

\* C5 witness: a batch of 3 with no failed delivery has ended
C5_Witness ==
    /\ mode = "quiz" /\ pc = "done" /\ count = 3
    /\ polls_failed = 0 /\ calls = 3 /\ polls_ok = 3

C7_AskReturns ==
    /\ pc = "ask" => (attempt \in 1..(Retries + 1) /\ failures = attempt - 1)
    /\ pc = "returned" =>
         /\ response # NoneStr
         /\ attempt \in 1..(Retries + 1)
         /\ slept = [i \in 1..(IF failures < Retries THEN failures ELSE Retries) |-> 1 + i]
         /\ api_text # NoneStr => (response = Strip(api_text) /\ failures = attempt - 1)
         /\ api_text = NoneStr <=> failures = Retries + 1
         /\ response = Sentinel <=> failures = Retries + 1

\* C7 witness: all three attempts failed, after sleeps of 2 and 3 seconds
C7_Witness ==
    /\ pc = "returned" /\ failures = 3 /\ attempt = 3
    /\ slept = <<2, 3>> /\ response = Sentinel

\* the trigger words, the longer of two overlapping words first: removing with
\* these removes every whole occurrence of every word
WholeTriggerWords == <<<<"q", "u", "e", "s", "t", "i", "o", "n", "s">>, <<"q", "u", "e", "s", "t", "i", "o", "n">>, <<"q", "u", "i", "z", "z", "e", "s">>, <<"q", "u", "i", "z">>, <<"c", "r", "e", "a", "t", "e">>, <<"m", "a", "k", "e">>>>

\* C8: a text with "quiz" or "question" starts a batch whose count is the digit run
\* before "quiz" (1 if absent) and whose topic is the lower-cased text with every
\* occurrence of the trigger words and every digit run removed, trimmed ("General
\* Knowledge" if empty): "create 3 quizzes about HTML" gives topic "html", count 3;
\* any other text starts no batch and goes unchanged to the client.
C8_Intent ==
    pc # "idle" =>
        LET low == Lower(user_input)
            rest == Strip(RemoveMatches(low, 1, WholeTriggerWords))
        IN  IF WantsQuiz(low)
            THEN /\ mode = "quiz"
                 /\ count = CountOf(low)
                 /\ topic = IF rest = <<>> THEN GeneralKnowledge ELSE rest
                 /\ user_input = ExampleMessage =>
                        (topic = <<"h", "t", "m", "l">> /\ count = 3)
            ELSE /\ mode = "chat"
                 /\ pc = "ask" => prompt = user_input
                 /\ total_sent = 0 /\ polls_ok = 0 /\ polls_failed = 0

PrefixLines(ls) == {i \in 1..Len(ls) : IsQuestionPrefix(ls[i])}
MarkLines(ls) == {i \in 1..Len(ls) : HasQuestionMark(ls[i])}

\* C9 as stated: the prefix rule has priority over the question-mark rule over the
\* whole response; the first line with "?" is used only when no line has the
\* prefix, the default only when neither rule matches; the question is never empty.
C9_PrefixPriority ==
    Generated =>
        LET ls == Lines
            pre == PrefixLines(ls)
            qm == MarkLines(ls)
        IN  /\ pre # {} => question = StripQuestionPrefix(ls[Least(pre)])
            /\ (pre = {} /\ qm # {}) => question = ls[Least(qm)]
            /\ question = DefaultQuestion(topic) <=> (pre = {} /\ qm = {})
            /\ question # <<>>

\* C9 amended: the first line that has the prefix or contains "?" decides; on that
\* line the prefix rule has priority; the default is used when no line matches
\* either rule or when nothing is left after the prefix; the question is never
\* empty.
C9_FirstHitDecides ==
    Generated =>
        LET ls == Lines
            pre == PrefixLines(ls)
            hits == pre \cup MarkLines(ls)
            first == Least(hits)
            cand == IF first \in pre THEN StripQuestionPrefix(ls[first]) ELSE ls[first]
        IN  /\ hits = {} => question = DefaultQuestion(topic)
            /\ hits # {} => question = IF cand = <<>> THEN DefaultQuestion(topic) ELSE cand
            /\ question # <<>>

\* C9 witness: a line with "?" and without the prefix stands before the first line
\* with the prefix, and the question is that earlier line
C9_Witness ==
    /\ Generated
    /\ LET ls == Lines
           pre == PrefixLines(ls)
           qm == MarkLines(ls)
       IN  /\ pre # {} /\ qm # {}
           /\ Least(qm) < Least(pre)
           /\ question = ls[Least(qm)]

\* the lines of ls that are option lines labelled with letter x
LabelledLines(ls, x) ==
    {i \in 1..Len(ls) :
        (StrictMatch(ls[i]) \/ LooseMatch(ls[i])) /\ ToUpper(ls[i][1]) = x}

OptionBody(line) == IF StrictMatch(line) THEN StrictBody(line) ELSE LooseBody(line)

\* C10: whenever a correct letter X is determined and the response has an option
\* line labelled X, the pre-shuffle option at the resolved correct index is the text
\* of a line labelled X.
C10_LetterMatchesLabel ==
    (Generated /\ correct_letter # NoneLetter) =>
        LET ls == Lines
            labelled == LabelledLines(ls, correct_letter)
        IN  labelled # {} =>
                \E i \in labelled : options[correct_index + 1] = OptionBody(ls[i])

=============================================================================
